---------------------------- MODULE Spec2Model ----------------------------
(***************************************************************************)
(* Model of myapp.py: a Flask application with one form.  POST / validates *)
(* a ConsultationForm, stores the uploaded clinic logo and a rendered PDF  *)
(* report in uploads/, and sends the PDF back.  GET /uploads/<path> and    *)
(* GET /templates/<path> serve files.                                      *)
(*                                                                         *)
(* Text is modelled as a sequence of characters, a character being a one-  *)
(* character string; a character outside ASCII, or an ASCII control        *)
(* character without an escape, is written "U+XXXX".  A file-system path   *)
(* is the sequence of its segments from the root, and a file's content is  *)
(* a sequence of blocks, so that files can be empty, partly written or     *)
(* mixed from the writes of several requests.  The                         *)
(* process runs with its working directory equal to the application root   *)
(* (python myapp.py), so the relative names "uploads/..." of generate_pdf  *)
(* and the root-relative directories of send_from_directory coincide.      *)
(***************************************************************************)
EXTENDS Integers, Sequences, FiniteSets, TLC

VARIABLES
    today,   \* the server's current local date, <<year, month, day>>
    fs,      \* the regular files on disk: absolute path |-> its blocks
    req,     \* per request: its position in the handler and its locals
    pdf_log  \* history: the requests that wrote a PDF, by their last write

vars == <<today, fs, req, pdf_log>>

---------------------------------------------------------------------------
(* Characters and text *)

AsciiLower ==
    {"a","b","c","d","e","f","g","h","i","j","k","l","m",
     "n","o","p","q","r","s","t","u","v","w","x","y","z"}

AsciiUpper ==
    {"A","B","C","D","E","F","G","H","I","J","K","L","M",
     "N","O","P","Q","R","S","T","U","V","W","X","Y","Z"}

DigitChars == {"0","1","2","3","4","5","6","7","8","9"}

\* ASCII control characters that are whitespace besides \t \n \r \f:
\* vertical tab and the four separators U+001C..U+001F
AsciiControlBlanks == {"U+000B", "U+001C", "U+001D", "U+001E", "U+001F"}

\* whitespace outside ASCII whose NFKD form is the space
SpaceLikeBlanks ==
    {"U+00A0", "U+2000", "U+2001", "U+2002", "U+2003", "U+2004", "U+2005",
     "U+2006", "U+2007", "U+2008", "U+2009", "U+200A", "U+202F", "U+205F",
     "U+3000"}

\* whitespace outside ASCII that NFKD leaves alone: next line, ogham space
\* mark, line separator, paragraph separator
OtherBlanks == {"U+0085", "U+1680", "U+2028", "U+2029"}

\* decimal digits outside ASCII: arabic-indic three, fullwidth zero and two
UnicodeDigits == {"U+0663", "U+FF10", "U+FF12"}

\* digits that are not decimal (Numeric_Type=Digit): superscript two,
\* superscript one, circled one
OtherDigits == {"U+00B2", "U+00B9", "U+2460"}

\* U+00E9 e with acute, U+0301 combining acute accent
NonAsciiChars ==
    SpaceLikeBlanks \cup OtherBlanks \cup UnicodeDigits \cup OtherDigits
        \cup {"U+00E9", "U+0301"}

\* Python's notion of whitespace for a str: what the pattern \s matches and
\* what str.split() and str.strip() treat as blank
IsSpace(c) ==
    c \in {" ", "\t", "\n", "\r", "\f"} \cup AsciiControlBlanks
          \cup SpaceLikeBlanks \cup OtherBlanks

IsAsciiLetter(c) == c \in AsciiLower \cup AsciiUpper

\* str.lower() on one character
LowerChar(c) ==
    CASE c = "A" -> "a" [] c = "B" -> "b" [] c = "C" -> "c" [] c = "D" -> "d"
      [] c = "E" -> "e" [] c = "F" -> "f" [] c = "G" -> "g" [] c = "H" -> "h"
      [] c = "I" -> "i" [] c = "J" -> "j" [] c = "K" -> "k" [] c = "L" -> "l"
      [] c = "M" -> "m" [] c = "N" -> "n" [] c = "O" -> "o" [] c = "P" -> "p"
      [] c = "Q" -> "q" [] c = "R" -> "r" [] c = "S" -> "s" [] c = "T" -> "t"
      [] c = "U" -> "u" [] c = "V" -> "v" [] c = "W" -> "w" [] c = "X" -> "x"
      [] c = "Y" -> "y" [] c = "Z" -> "z" [] OTHER -> c

Lower(s) == [i \in 1..Len(s) |-> LowerChar(s[i])]

EndsWith(s, suffix) ==
    /\ Len(s) >= Len(suffix)
    /\ SubSeq(s, Len(s) - Len(suffix) + 1, Len(s)) = suffix

\* str.strip(): the text without its leading and trailing whitespace
RECURSIVE LStrip(_)
LStrip(s) == IF s # <<>> /\ IsSpace(Head(s)) THEN LStrip(Tail(s)) ELSE s

RECURSIVE RStrip(_)
RStrip(s) ==
    IF s # <<>> /\ IsSpace(s[Len(s)]) THEN RStrip(SubSeq(s, 1, Len(s) - 1))
    ELSE s

Strip(s) == RStrip(LStrip(s))

\* the concatenation of a sequence of texts
RECURSIVE Concat(_)
Concat(ss) == IF ss = <<>> THEN <<>> ELSE Head(ss) \o Concat(Tail(ss))

\* str.split(sep): the pieces between the occurrences of one separator
RECURSIVE SplitOn(_, _, _)
SplitOn(s, sep, cur) ==
    IF s = <<>> THEN <<cur>>
    ELSE IF Head(s) = sep THEN <<cur>> \o SplitOn(Tail(s), sep, <<>>)
    ELSE SplitOn(Tail(s), sep, Append(cur, Head(s)))

\* str.split(): the maximal runs of non-whitespace characters
RECURSIVE SplitBlank(_, _)
SplitBlank(s, cur) ==
    IF s = <<>> THEN (IF cur = <<>> THEN <<>> ELSE <<cur>>)
    ELSE IF IsSpace(Head(s))
         THEN (IF cur = <<>> THEN <<>> ELSE <<cur>>) \o SplitBlank(Tail(s), <<>>)
    ELSE SplitBlank(Tail(s), Append(cur, Head(s)))

\* sep.join(pieces)
RECURSIVE Join(_, _)
Join(pieces, sep) ==
    IF pieces = <<>> THEN <<>>
    ELSE IF Len(pieces) = 1 THEN pieces[1]
    ELSE pieces[1] \o sep \o Join(Tail(pieces), sep)

---------------------------------------------------------------------------
(* werkzeug.utils.secure_filename, as generate_pdf applies it (POSIX) *)

\* unicodedata.normalize("NFKD", c) for one character
Nfkd(c) ==
    CASE c \in SpaceLikeBlanks -> <<" ">>
      [] c = "U+00E9" -> <<"e", "U+0301">>
      [] c = "U+0663" -> <<"U+0663">>
      [] c = "U+FF10" -> <<"0">>
      [] c = "U+FF12" -> <<"2">>
      [] c = "U+00B2" -> <<"2">>
      [] c \in {"U+00B9", "U+2460"} -> <<"1">>
      [] OTHER -> <<c>>

Normalize(s) == Concat([i \in 1..Len(s) |-> Nfkd(s[i])])

\* .encode("ascii", "ignore").decode("ascii")
RECURSIVE AsciiOnly(_)
AsciiOnly(s) ==
    IF s = <<>> THEN <<>>
    ELSE IF Head(s) \in NonAsciiChars THEN AsciiOnly(Tail(s))
    ELSE <<Head(s)>> \o AsciiOnly(Tail(s))

\* filename.replace(os.sep, " ")
SepToBlank(s) == [i \in 1..Len(s) |-> IF s[i] = "/" THEN " " ELSE s[i]]

\* _filename_ascii_strip_re: [^A-Za-z0-9_.-] is removed
IsFilenameChar(c) ==
    IsAsciiLetter(c) \/ c \in DigitChars \/ c \in {"_", ".", "-"}

RECURSIVE StripUnsafe(_)
StripUnsafe(s) ==
    IF s = <<>> THEN <<>>
    ELSE IF IsFilenameChar(Head(s)) THEN <<Head(s)>> \o StripUnsafe(Tail(s))
    ELSE StripUnsafe(Tail(s))

\* .strip("._")
RECURSIVE LStripDots(_)
LStripDots(s) ==
    IF s # <<>> /\ Head(s) \in {".", "_"} THEN LStripDots(Tail(s)) ELSE s

RECURSIVE RStripDots(_)
RStripDots(s) ==
    IF s # <<>> /\ s[Len(s)] \in {".", "_"}
    THEN RStripDots(SubSeq(s, 1, Len(s) - 1))
    ELSE s

\* secure_filename that removes whitespace instead of joining with "_"
secure_filename_unjoined(filename) ==
    RStripDots(LStripDots(StripUnsafe(AsciiOnly(Normalize(filename)))))

secure_filename(filename) ==
    LET ascii  == AsciiOnly(Normalize(filename))
        joined == Join(SplitBlank(SepToBlank(ascii), <<>>), <<"_">>)
    IN  RStripDots(LStripDots(StripUnsafe(joined)))

---------------------------------------------------------------------------
(* Dates: datetime.date as <<year, month, day>> *)

IsLeap(y) == (y % 4 = 0 /\ y % 100 # 0) \/ y % 400 = 0

DaysInMonth(y, m) ==
    IF m = 2 THEN (IF IsLeap(y) THEN 29 ELSE 28)
    ELSE IF m \in {4, 6, 9, 11} THEN 30 ELSE 31

\* what strptime(value, "%Y-%m-%d") accepts once the three numbers are read
IsDate(d) ==
    /\ d[1] \in 1..9999
    /\ d[2] \in 1..12
    /\ d[3] \in 1..DaysInMonth(d[1], d[2])

\* date.__gt__
DateAfter(a, b) ==
    \/ a[1] > b[1]
    \/ a[1] = b[1] /\ a[2] > b[2]
    \/ a[1] = b[1] /\ a[2] = b[2] /\ a[3] > b[3]

NextDay(d) ==
    IF d[3] < DaysInMonth(d[1], d[2]) THEN <<d[1], d[2], d[3] + 1>>
    ELSE IF d[2] < 12 THEN <<d[1], d[2] + 1, 1>>
    ELSE <<d[1] + 1, 1, 1>>

DigitOf(n) ==
    CASE n = 0 -> "0" [] n = 1 -> "1" [] n = 2 -> "2" [] n = 3 -> "3"
      [] n = 4 -> "4" [] n = 5 -> "5" [] n = 6 -> "6" [] n = 7 -> "7"
      [] n = 8 -> "8" [] n = 9 -> "9"

Pad2(n) == <<DigitOf(n \div 10), DigitOf(n % 10)>>

Pad4(n) ==
    <<DigitOf(n \div 1000), DigitOf((n \div 100) % 10),
      DigitOf((n \div 10) % 10), DigitOf(n % 10)>>

\* str(date): YYYY-MM-DD
DateStr(d) == Pad4(d[1]) \o <<"-">> \o Pad2(d[2]) \o <<"-">> \o Pad2(d[3])

\* the value of a decimal digit (\d is every character of category Nd)
DigitValue(c) ==
    CASE c = "U+0663" -> 3 [] c = "U+FF10" -> 0 [] c = "U+FF12" -> 2
      [] OTHER -> CHOOSE n \in 0..9 : DigitOf(n) = c

IsDecimalDigit(c) == c \in DigitChars \cup UnicodeDigits

NonZeroDigits == DigitChars \ {"0"}

NoDate == <<0, 0, 0>>

\* _strptime's pattern for %Y: \d\d\d\d
YearField(s) == Len(s) = 4 /\ \A i \in 1..4 : IsDecimalDigit(s[i])

\* _strptime's pattern for %m: 1[0-2]|0[1-9]|[1-9]
MonthField(s) ==
    \/ Len(s) = 2 /\ s[1] = "1" /\ s[2] \in {"0", "1", "2"}
    \/ Len(s) = 2 /\ s[1] = "0" /\ s[2] \in NonZeroDigits
    \/ Len(s) = 1 /\ s[1] \in NonZeroDigits

\* _strptime's pattern for %d: 3[0-1]|[1-2]\d|0[1-9]|[1-9]| [1-9]
DayField(s) ==
    \/ Len(s) = 2 /\ s[1] = "3" /\ s[2] \in {"0", "1"}
    \/ Len(s) = 2 /\ s[1] \in {"1", "2"} /\ IsDecimalDigit(s[2])
    \/ Len(s) = 2 /\ s[1] = "0" /\ s[2] \in NonZeroDigits
    \/ Len(s) = 1 /\ s[1] \in NonZeroDigits
    \/ Len(s) = 2 /\ s[1] = " " /\ s[2] \in NonZeroDigits

\* int(text) of a matched field (int() skips the blank of " 1")
RECURSIVE ToInt(_, _)
ToInt(s, acc) ==
    IF s = <<>> THEN acc
    ELSE IF Head(s) = " " THEN ToInt(Tail(s), acc)
    ELSE ToInt(Tail(s), 10 * acc + DigitValue(Head(s)))

\* datetime.datetime.strptime(text, "%Y-%m-%d").date(), NoDate for ValueError
ParseDate(text) ==
    LET parts == SplitOn(text, "-", <<>>)
    IN  IF /\ Len(parts) = 3
           /\ YearField(parts[1])
           /\ MonthField(parts[2])
           /\ DayField(parts[3])
        THEN LET d == <<ToInt(parts[1], 0), ToInt(parts[2], 0),
                        ToInt(parts[3], 0)>>
             IN  IF IsDate(d) THEN d ELSE NoDate
        ELSE NoDate

---------------------------------------------------------------------------
(* The file system *)

uploads   == <<"u","p","l","o","a","d","s">>
templates == <<"t","e","m","p","l","a","t","e","s">>

\* app.config["UPLOAD_FOLDER"]
UPLOAD_FOLDER == uploads \o <<"/">>

\* the application root, which is also the working directory: /app
AppRoot == << <<"a","p","p">> >>

UploadDir   == Append(AppRoot, uploads)
TemplateDir == Append(AppRoot, templates)

\* the directories that exist; the program creates none
Dirs ==
    { <<>>, AppRoot, UploadDir, TemplateDir, << <<"e","t","c">> >> }

IndexHtml  == <<"i","n","d","e","x",".","h","t","m","l">>
ReportHtml == <<"r","e","p","o","r","t",".","h","t","m","l">>
MyappPy    == <<"m","y","a","p","p",".","p","y">>
Passwd     == <<"p","a","s","s","w","d">>

\* A file's content is a sequence of blocks; a block records the object it
\* is a piece of and which piece it is.  The n blocks of an object:
Blocks(object, n) == [i \in 1..n |-> [of |-> object, no |-> i]]

\* the zero bytes a write beyond the end of a file leaves before it
Hole == [of |-> [kind |-> "zeros"], no |-> 0]

\* the files present when the server starts
BaseFiles ==
    LET paths == { Append(TemplateDir, IndexHtml), Append(TemplateDir, ReportHtml),
                   Append(AppRoot, MyappPy), << <<"e","t","c">>, Passwd >> }
    IN  [p \in paths |-> Blocks([kind |-> "static", path |-> p], 1)]

NoPath == << <<"/">> >>

Parent(dir) == IF dir = <<>> THEN <<>> ELSE SubSeq(dir, 1, Len(dir) - 1)

\* the kernel's resolution of the segments segs from directory cur: every step
\* is taken from an existing directory; NoPath stands for ENOENT / ENOTDIR
RECURSIVE Walk(_, _)
Walk(cur, segs) ==
    IF cur = NoPath THEN NoPath
    ELSE IF segs = <<>> THEN cur
    ELSE IF cur \notin Dirs THEN NoPath
    ELSE IF Head(segs) \in { <<>>, <<".">> } THEN Walk(cur, Tail(segs))
    ELSE IF Head(segs) = <<".", ".">> THEN Walk(Parent(cur), Tail(segs))
    ELSE Walk(Append(cur, Head(segs)), Tail(segs))

\* where a relative path name leads from the working directory
Resolve(name) == Walk(AppRoot, SplitOn(name, "/", <<>>))

\* open(name, "wb") succeeds
CanCreate(name) == Resolve(name) # NoPath /\ Resolve(name) \notin Dirs

\* os.path.isfile(name)
IsFile(files, name) == Resolve(name) \in DOMAIN files

\* the file system with content as the whole of the file at path
WriteFile(files, path, content) ==
    [p \in DOMAIN files \cup {path} |-> IF p = path THEN content ELSE files[p]]

\* open(path, "wb"): the file is created, or truncated to no bytes
OpenTruncate(files, path) == WriteFile(files, path, <<>>)

\* write(blocks) through a handle that has written offset blocks so far: the
\* blocks replace what the file holds at that position and extend it
WriteAt(files, path, offset, blocks) ==
    LET old == files[path]
        n   == IF Len(old) > offset + Len(blocks) THEN Len(old)
               ELSE offset + Len(blocks)
    IN  WriteFile(files, path,
            [i \in 1..n |->
                IF i > offset /\ i <= offset + Len(blocks) THEN blocks[i - offset]
                ELSE IF i <= Len(old) THEN old[i]
                ELSE Hole])

IsInside(path, dir) ==
    Len(path) > Len(dir) /\ SubSeq(path, 1, Len(dir)) = dir

---------------------------------------------------------------------------
(* send_from_directory: werkzeug's safe_join, then isfile, then send_file *)

\* posixpath.normpath on the segments of a path: "" and "." are skipped, ".."
\* removes the segment before it, is dropped at the root of an absolute
\* path and is kept at the start of a relative one
RECURSIVE NormSegs(_, _, _)
NormSegs(segs, acc, absolute) ==
    IF segs = <<>> THEN acc
    ELSE IF Head(segs) \in { <<>>, <<".">> } THEN NormSegs(Tail(segs), acc, absolute)
    ELSE IF Head(segs) = <<".", ".">> /\ acc # <<>> /\ acc[Len(acc)] # <<".", ".">>
         THEN NormSegs(Tail(segs), SubSeq(acc, 1, Len(acc) - 1), absolute)
    ELSE IF Head(segs) = <<".", ".">> /\ acc = <<>> /\ absolute
         THEN NormSegs(Tail(segs), acc, absolute)
    ELSE NormSegs(Tail(segs), Append(acc, Head(segs)), absolute)

\* the leading slashes normpath keeps: exactly two stay two, more become one
InitialSlashes(name) ==
    IF name = <<>> \/ Head(name) # "/" THEN <<>>
    ELSE IF Len(name) >= 2 /\ name[2] = "/" /\ ~(Len(name) >= 3 /\ name[3] = "/")
         THEN <<"/", "/">>
    ELSE <<"/">>

normpath(name) ==
    LET slashes == InitialSlashes(name)
        segs    == NormSegs(SplitOn(name, "/", <<>>), <<>>, slashes # <<>>)
        path    == slashes \o Join(segs, <<"/">>)
    IN  IF path = <<>> THEN <<".">> ELSE path

NoName == <<"U+0000">>

StartsWith(s, prefix) ==
    Len(s) >= Len(prefix) /\ SubSeq(s, 1, Len(prefix)) = prefix

\* safe_join without the check for a leading "../"
safe_join_unchecked_prefix(directory, name) ==
    LET n == IF name # <<>> THEN normpath(name) ELSE name
    IN  IF (n # <<>> /\ Head(n) = "/") \/ n = <<".", ".">>
        THEN NoName
        ELSE directory \o <<"/">> \o n

\* safe_join(directory, name): NoName where werkzeug returns None
safe_join(directory, name) ==
    LET n == IF name # <<>> THEN normpath(name) ELSE name
    IN  IF \/ (n # <<>> /\ Head(n) = "/")
           \/ n = <<".", ".">>
           \/ StartsWith(n, <<".", ".", "/">>)
        THEN NoName
        ELSE directory \o <<"/">> \o n

NotFound == [status |-> 404, kind |-> "error"]

\* send_from_directory(directory, name) in the handler: NotFound, or the
\* response prepared by send_file, which has taken Content-Length from
\* os.stat and opened the file; the body is read when the response is sent
send_from_directory(files, directory, name) ==
    LET joined == safe_join(directory, name)
    IN  IF joined = NoName THEN NotFound
        ELSE IF ~IsFile(files, joined) THEN NotFound
        ELSE [status |-> 200, kind |-> "file", file |-> Resolve(joined),
              content_length |-> Len(files[Resolve(joined)])]

---------------------------------------------------------------------------
(* ConsultationForm and its validators *)

NoFile == [filename |-> <<>>, image |-> "none"]

REQUIRED       == "This field is required."
IMAGES_ONLY    == "Images only!"
PHYSICIAN_MSG  == "Physician name must contain characters only."
FIRST_NAME_MSG == "Patient first name must contain characters only."
LAST_NAME_MSG  == "Patient last name must contain characters only."
NUMBERS_MSG    == "This field should contain numbers only."
FUTURE_MSG     == "Date of birth cannot be in the future."
INVALID_MSG    == "Invalid date format. Please use YYYY-MM-DD."
CSRF_MSG       == "The CSRF token is missing."

\* DataRequired on a text field: the value is non-empty once stripped
DataRequired(text) == text # <<>> /\ Strip(text) # <<>>

\* Regexp(r"^[a-zA-Z\s]*$").  re.match with a str pattern: \s is every
\* whitespace character, and $ also matches before a final newline, which
\* the class already admits.
MatchesNameRegexp(text) ==
    \A i \in 1..Len(text) : IsAsciiLetter(text[i]) \/ IsSpace(text[i])

\* str.isdigit(): non-empty, every character a digit, decimal or not
IsDigitText(text) ==
    /\ text # <<>>
    /\ \A i \in 1..Len(text) : IsDecimalDigit(text[i]) \/ text[i] \in OtherDigits

\* validate_numbers_only raises
validate_numbers_only(text) == ~IsDigitText(text)

\* what the except clause of the validator does with an error raised in its
\* try block: wtforms' ValidationError is a ValueError, so the clause catches
\* it and raises the error of line 34 in its place
ExceptValueError(message) == INVALID_MSG

\* the validator with >= in place of >
validate_date_not_before_current(date, now) ==
    IF DateAfter(date, now) \/ date = now
    THEN <<ExceptValueError(FUTURE_MSG)>> ELSE <<>>

\* validate_date_not_above_current: the errors it adds to the field.
\* field.data is a date here, DataRequired having stopped the chain for a
\* value that did not parse.
validate_date_not_above_current(date, now) ==
    IF DateAfter(date, now) THEN <<ExceptValueError(FUTURE_MSG)>> ELSE <<>>

\* FileAllowed(["jpg", "png"]): the lower-cased filename ends with "." + ext
AllowedExtensions == { <<"j","p","g">>, <<"p","n","g">> }

\* FileAllowed comparing the end of the filename without the "."
FileAllowedNoDot(filename) ==
    \E ext \in AllowedExtensions : EndsWith(Lower(filename), ext)

FileAllowed(filename) ==
    \E ext \in AllowedExtensions : EndsWith(Lower(filename), <<".">> \o ext)

\* FileRequired: a FileStorage with a non-empty filename was uploaded
FileRequired(upload) == upload.filename # <<>>

\* the error list of a text field carrying DataRequired and Regexp
NameErrors(text, message) ==
    IF ~DataRequired(text) THEN <<REQUIRED>>
    ELSE IF ~MatchesNameRegexp(text) THEN <<message>>
    ELSE <<>>

ContactErrors(text) ==
    IF ~DataRequired(text) THEN <<REQUIRED>>
    ELSE IF validate_numbers_only(text) THEN <<NUMBERS_MSG>>
    ELSE <<>>

RequiredErrors(text) == IF ~DataRequired(text) THEN <<REQUIRED>> ELSE <<>>

LogoErrors(upload) ==
    IF ~FileRequired(upload) THEN <<REQUIRED>>
    ELSE IF ~FileAllowed(upload.filename) THEN <<IMAGES_ONLY>>
    ELSE <<>>

\* DateField(format="%Y-%m-%d"): a value that does not parse leaves data
\* None, and DataRequired then replaces the field's errors by its own
DobErrors(text, now) ==
    IF ParseDate(text) = NoDate THEN <<REQUIRED>>
    ELSE validate_date_not_above_current(ParseDate(text), now)

\* form.errors after form.validate(): every field is validated
FormErrors(data, now) ==
    [ csrf_token         |-> IF data.csrf_ok THEN <<>> ELSE <<CSRF_MSG>>,
      clinic_name        |-> RequiredErrors(data.clinic_name),
      clinic_logo        |-> LogoErrors(data.clinic_logo),
      physician_name     |-> NameErrors(data.physician_name, PHYSICIAN_MSG),
      patient_contact    |-> ContactErrors(data.patient_contact),
      patient_first_name |-> NameErrors(data.patient_first_name, FIRST_NAME_MSG),
      patient_last_name  |-> NameErrors(data.patient_last_name, LAST_NAME_MSG),
      patient_dob        |-> DobErrors(data.patient_dob, now),
      physician_contact  |-> ContactErrors(data.physician_contact),
      chief_complaint    |-> RequiredErrors(data.chief_complaint),
      consultation_note  |-> RequiredErrors(data.consultation_note) ]

FieldNames ==
    {"csrf_token", "clinic_name", "clinic_logo", "physician_name",
     "patient_contact", "patient_first_name", "patient_last_name",
     "patient_dob", "physician_contact", "chief_complaint",
     "consultation_note"}

NoErrors == [f \in FieldNames |-> <<>>]

\* validate_on_submit with the physician's name left unchecked
validate_on_submit_unchecked_name(data, now) ==
    \A f \in FieldNames \ {"physician_name"} : FormErrors(data, now)[f] = <<>>

\* form.validate_on_submit() for a POST
validate_on_submit(data, now) == FormErrors(data, now) = NoErrors

---------------------------------------------------------------------------
(* generate_pdf's names *)

\* f"CR_{last}_{first}_{dob}.pdf"
ReportName(form) ==
    <<"C","R","_">> \o form.patient_last_name \o <<"_">>
        \o form.patient_first_name \o <<"_">>
        \o DateStr(ParseDate(form.patient_dob)) \o <<".","p","d","f">>

\* os.path.join(app.config["UPLOAD_FOLDER"], secure_filename(filename))
ReportPath(form) == UPLOAD_FOLDER \o secure_filename(ReportName(form))

\* "uploads/" + form.clinic_logo.data.filename
LogoPath(form) == <<"u","p","l","o","a","d","s","/">> \o form.clinic_logo.filename

\* os.path.basename
Basename(name) ==
    LET parts == SplitOn(name, "/", <<>>) IN parts[Len(parts)]

---------------------------------------------------------------------------
(* Requests.  Flask's development server (app.run) handles every request  *)
(* in a thread of its own, so the handlers below interleave at every call *)
(* that touches the file system: open, each write, stat and each read are *)
(* steps of their own, and a response's body is read from the open file   *)
(* after the handler has returned.                                        *)

NumRequests == 2

Requests == 1..NumRequests

\* request.remote_addr
ClientAddr(r) == <<"client", r>>

NoForm == [csrf_ok |-> FALSE, clinic_name |-> <<>>, clinic_logo |-> NoFile,
           physician_name |-> <<>>, patient_contact |-> <<>>,
           patient_first_name |-> <<>>, patient_last_name |-> <<>>,
           patient_dob |-> <<>>, physician_contact |-> <<>>,
           chief_complaint |-> <<>>, consultation_note |-> <<>>]

NoResp == [status |-> 0, kind |-> "none"]

ServerError == [status |-> 500, kind |-> "error"]

\* pos: the blocks written through the request's open write handle;
\* file, content_length, got: the file opened for a response, the size
\* os.stat gave for it and the blocks read from it so far
Idle ==
    [pc |-> "idle", route |-> "none", path |-> <<>>, form |-> NoForm,
     filepath |-> <<>>, timestamp |-> NoDate, logo |-> NoResp, resp |-> NoResp,
     pos |-> 0, file |-> NoPath, content_length |-> 0, got |-> <<>>]

\* render_template("index.html", form=form)
FormPage(errors) == [status |-> 200, kind |-> "form", errors |-> errors]

\* the number of blocks of an uploaded image
ImageSize(image) ==
    CASE image = "imgB" -> 2 [] image = "none" -> 0 [] OTHER -> 1

\* the bytes of the uploaded file form.clinic_logo.data
LogoStream(form) ==
    Blocks([kind |-> "image", image |-> form.clinic_logo.image],
           ImageSize(form.clinic_logo.image))

\* the PDF of report.html rendered for request r: the submitted fields, what
\* the logo reference was answered with, the timestamp and the address
Report(r, q) ==
    [kind |-> "pdf", form |-> q.form, logo |-> q.logo,
     timestamp |-> q.timestamp, ip |-> ClientAddr(r)]

\* the number of blocks of a report, which grows with the text it carries
\* and is never zero
ReportSize(form) == 1 + Len(form.chief_complaint) \div 2

\* the bytes of the PDF rendered for request r
ReportBytes(r, q) == Blocks(Report(r, q), ReportSize(q.form))

Finish(r, response) == [req EXCEPT ![r].pc = "done", ![r].resp = response]

\* the request holds a prepared file response and goes on to send its body
Opened(r, q, prepared, pc) ==
    [req EXCEPT ![r] = [q EXCEPT !.pc = pc, !.file = prepared.file,
                                 !.content_length = prepared.content_length,
                                 !.got = <<>>]]

\* the open file of request r has no block left to read
AtEof(r) == Len(req[r].got) >= Len(fs[req[r].file])

\* read() of the next block of the open file
ReadBlock(r) ==
    [req EXCEPT ![r].got = Append(req[r].got, fs[req[r].file][Len(req[r].got) + 1])]

\* index() for GET /
index_get(r) ==
    /\ req[r].pc = "idle"
    /\ req' = [req EXCEPT ![r].pc = "done", ![r].route = "GET /",
                          ![r].resp = FormPage(NoErrors)]
    /\ UNCHANGED <<today, fs, pdf_log>>

\* index() for POST / with the submitted data: the form is re-rendered with
\* its errors, or generate_pdf is entered and runs up to the logo's save
index_post(r, data) ==
    /\ req[r].pc = "idle"
    /\ IF validate_on_submit(data, today)
       THEN req' = [req EXCEPT ![r].pc = "save_open", ![r].route = "POST /",
                               ![r].form = data,
                               ![r].filepath = ReportPath(data),
                               ![r].timestamp = today]
       ELSE req' = [req EXCEPT ![r].pc = "done", ![r].route = "POST /",
                               ![r].form = data,
                               ![r].resp = FormPage(FormErrors(data, today))]
    /\ UNCHANGED <<today, fs, pdf_log>>

\* form.clinic_logo.data.save(dst=clinic_logo_path), FileStorage.save's
\* open(dst, "wb"); a path that cannot be opened raises, and Flask answers
\* 500; for an upload of no bytes copyfileobj writes nothing and the file is
\* closed empty
save_open(r) ==
    /\ req[r].pc = "save_open"
    /\ IF CanCreate(LogoPath(req[r].form))
       THEN /\ fs' = OpenTruncate(fs, Resolve(LogoPath(req[r].form)))
            /\ req' = [req EXCEPT ![r].pos = 0,
                                  ![r].pc = IF LogoStream(req[r].form) = <<>>
                                            THEN "fetch_open" ELSE "save_write"]
       ELSE /\ fs' = fs
            /\ req' = Finish(r, ServerError)
    /\ UNCHANGED <<today, pdf_log>>

\* FileStorage.save's copyfileobj: one block of the upload is written per
\* turn of its loop; after the last one the file is closed and the report's
\* HTML is rendered with the logo's URL
save_write(r) ==
    /\ req[r].pc = "save_write"
    /\ LET stream == LogoStream(req[r].form)
           k      == req[r].pos
       IN  /\ fs' = WriteAt(fs, Resolve(LogoPath(req[r].form)), k,
                            <<stream[k + 1]>>)
           /\ req' = [req EXCEPT ![r].pos = k + 1,
                                 ![r].pc = IF k + 1 = Len(stream)
                                           THEN "fetch_open" ELSE "save_write"]
    /\ UNCHANGED <<today, pdf_log>>

\* html.write_pdf(filepath): the renderer requests the logo the HTML refers
\* to, GET <base_url>/uploads/<filename>, which is routed to send_report
\* unless the filename starts with "/"; an image that is not found is left out
fetch_open(r) ==
    /\ req[r].pc = "fetch_open"
    /\ LET filename == req[r].form.clinic_logo.filename
           prepared == IF Head(filename) = "/" THEN NotFound
                       ELSE send_from_directory(fs, uploads, filename)
       IN  IF prepared.status = 200
           THEN req' = Opened(r, req[r], prepared, "fetch_read")
           ELSE req' = [req EXCEPT ![r].pc = "pdf_open", ![r].logo = NotFound]
    /\ UNCHANGED <<today, fs, pdf_log>>

\* the body of the logo's response is read block by block; at the end of the
\* file the renderer has the Content-Length and the bytes it was sent
fetch_read(r) ==
    /\ req[r].pc = "fetch_read"
    /\ IF AtEof(r)
       THEN req' = [req EXCEPT ![r].pc = "pdf_open",
                       ![r].logo = [status |-> 200, kind |-> "file",
                                    content_length |-> req[r].content_length,
                                    body |-> req[r].got]]
       ELSE req' = ReadBlock(r)
    /\ UNCHANGED <<today, fs, pdf_log>>

\* html.write_pdf(filepath): open(filepath, "wb")
pdf_open(r) ==
    /\ req[r].pc = "pdf_open"
    /\ fs' = OpenTruncate(fs, Resolve(req[r].filepath))
    /\ req' = [req EXCEPT ![r].pc = "pdf_write", ![r].pos = 0]
    /\ UNCHANGED <<today, pdf_log>>

\* html.write_pdf(filepath): the PDF is written from the start of the file,
\* one block per write; the request that makes its last write enters the log
pdf_write(r) ==
    /\ req[r].pc = "pdf_write"
    /\ LET bytes == ReportBytes(r, req[r])
           k     == req[r].pos
           last  == k + 1 = Len(bytes)
       IN  /\ fs' = WriteAt(fs, Resolve(req[r].filepath), k, <<bytes[k + 1]>>)
           /\ req' = [req EXCEPT ![r].pos = k + 1,
                                 ![r].pc = IF last THEN "send_file" ELSE "pdf_write"]
           /\ pdf_log' = IF last THEN Append(pdf_log, r) ELSE pdf_log
    /\ UNCHANGED today

\* return send_file(filepath, as_attachment=True): Content-Length is taken
\* from os.stat and the file is opened
send_file(r) ==
    /\ req[r].pc = "send_file"
    /\ LET path == Resolve(req[r].filepath)
       IN  req' = Opened(r, req[r],
                         [file |-> path, content_length |-> Len(fs[path])],
                         "send_read")
    /\ UNCHANGED <<today, fs, pdf_log>>

\* the PDF's response is sent: its body is read from the open file
send_read(r) ==
    /\ req[r].pc = "send_read"
    /\ IF AtEof(r)
       THEN req' = Finish(r, [status |-> 200, kind |-> "pdf",
                              content_length |-> req[r].content_length,
                              body |-> req[r].got,
                              download_name |-> Basename(req[r].filepath)])
       ELSE req' = ReadBlock(r)
    /\ UNCHANGED <<today, fs, pdf_log>>

\* a route that answers send_from_directory(directory, path)
ServeFrom(r, route, directory, path) ==
    LET prepared == send_from_directory(fs, directory, path)
        q        == [req[r] EXCEPT !.route = route, !.path = path]
    IN  IF prepared.status = 200
        THEN req' = Opened(r, q, prepared, "file_read")
        ELSE req' = [req EXCEPT ![r] = [q EXCEPT !.pc = "done", !.resp = NotFound]]

\* GET /uploads/<path:path>
send_report(r, path) ==
    /\ req[r].pc = "idle"
    /\ ServeFrom(r, "GET /uploads/", uploads, path)
    /\ UNCHANGED <<today, fs, pdf_log>>

\* GET /templates/<path:path>
get_template(r, path) ==
    /\ req[r].pc = "idle"
    /\ ServeFrom(r, "GET /templates/", templates, path)
    /\ UNCHANGED <<today, fs, pdf_log>>

\* the response of send_report or get_template is sent: its body is read
\* from the open file
file_read(r) ==
    /\ req[r].pc = "file_read"
    /\ IF AtEof(r)
       THEN req' = Finish(r, [status |-> 200, kind |-> "file",
                              content_length |-> req[r].content_length,
                              body |-> req[r].got])
       ELSE req' = ReadBlock(r)
    /\ UNCHANGED <<today, fs, pdf_log>>

\* midnight passes
MaxDays == 1

StartDate == <<2024, 12, 31>>

RECURSIVE DaysLater(_, _)
DaysLater(d, n) == IF n = 0 THEN d ELSE DaysLater(NextDay(d), n - 1)

Tick ==
    /\ today # DaysLater(StartDate, MaxDays)
    /\ today' = NextDay(today)
    /\ UNCHANGED <<fs, req, pdf_log>>

---------------------------------------------------------------------------
(* Inputs *)

\* the texts of at most n characters over an alphabet
Texts(alphabet, n) == UNION { [1..k -> alphabet] : k \in 0..n }

Smith == <<"S","m","i","t","h">>
Jane  == <<"J","a","n","e">>
XPng  == <<"x",".","p","n","g">>

ValidForm ==
    [csrf_ok |-> TRUE, clinic_name |-> <<"C","l","i","n","i","c">>,
     clinic_logo |-> [filename |-> XPng, image |-> "imgA"],
     physician_name |-> <<"J","o","h","n">>, patient_contact |-> <<"1","2">>,
     patient_first_name |-> Jane, patient_last_name |-> Smith,
     patient_dob |-> <<"2","0","2","0","-","0","1","-","0","1">>,
     physician_contact |-> <<"3","4">>,
     chief_complaint |-> <<"c","1">>, consultation_note |-> <<"n">>]

\* submissions of the concurrent specification: two submissions for the same
\* patient that differ in complaint and logo image and share the logo's
\* filename, one for another patient whose logo filename leaves the upload
\* directory, and an invalid one
ConcForms ==
    { ValidForm,
      [ValidForm EXCEPT !.clinic_logo.image = "imgB",
                        !.chief_complaint = <<"c">>],
      [ValidForm EXCEPT !.clinic_logo.image = "none"],
      [ValidForm EXCEPT !.patient_last_name = <<"V","a","n"," ","D">>,
                        !.clinic_logo.filename = <<".",".","/">> \o XPng],
      [ValidForm EXCEPT !.physician_name = <<"J","o","h","n","1","2","3">>] }

ConcPaths == { XPng, <<".",".","/">> \o MyappPy }

\* submissions of the sequential specification: the valid form with one
\* field replaced
MaxLen == 2

NameAlphabet ==
    {"a", "Z", " ", "\t", "U+000B", "1", "-", "U+00E9", "U+00A0", "U+2028"}

NameTexts ==
    Texts(NameAlphabet, MaxLen)
    \cup { Smith, <<"J","o","h","n","1","2","3">>, <<"a"," ","Z">>,
           <<"a","\t","Z">>, <<"V","a","n"," ","\n"," ","D","e","r">>,
           <<"a","\n">>, <<"a","U+001C","U+3000","Z">>, <<"U+0085","a","U+1680">> }

ContactTexts == Texts({"1", "a", " ", "U+0663", "U+FF12", "U+00B2", "U+2460"}, 2)

SomeDates ==
    { d \in {2020, 2024, 2025, 2026} \X {1, 2, 12} \X {1, 2, 29, 30, 31} : IsDate(d) }

DobTexts ==
    { DateStr(d) : d \in SomeDates }
    \cup { <<>>, <<"2","0","2","5","-","1","-","1">>,
           <<"2","0","2","3","-","0","2","-","2","9">>,
           <<"0","1","/","0","1","/","2","0","2","0">>,
           <<"2","0","2","0","-","0","1","-"," ","1">>,
           <<"2","0","2","0","-","0","1","-","1","U+0663">>,
           <<"U+FF12","U+FF10","U+FF12","U+FF10","-","0","1","-","0","1">>,
           <<"2","0","2","0","-","0","U+0663","-","0","1">>,
           <<"2","0","2","0","-","0","1","-","0","U+0663">>,
           <<"2","0","2","0","-","0","1","-","3","2">>,
           <<"2","0","2","0","-","1","3","-","0","1">>,
           <<"2","0","2","0","-","0","1","-","0","0">>,
           <<"2","0","2","6","-","0","1","-"," ","1">> }

LogoStems ==
    { <<>>, <<"x">>, <<".",".","/","x">>, <<".",".","/",".",".","/","x">>,
      <<"a","/","x">>, <<"/","x">>, <<".","/","x">>,
      <<".",".","/",".",".","/","e","t","c","/","x">> }

LogoSuffixes ==
    { <<>>, <<".","p","n","g">>, <<".","P","N","G">>, <<".","j","p","g">>,
      <<".","J","p","g">>, <<".","g","i","f">>, <<".","p","d","f">>,
      <<"p","n","g">>, <<".","p","n","g",".">>, <<".","j","p","e","g">> }

\* every filename with an image of one block, and uploads of two blocks and
\* of no bytes under an allowed filename
LogoInputs ==
    { [filename |-> stem \o suffix, image |-> "imgA"]
        : stem \in LogoStems, suffix \in LogoSuffixes }
    \cup { [filename |-> XPng, image |-> i] : i \in {"imgB", "none"} }

SeqForms ==
    { [ValidForm EXCEPT !.physician_name = t] : t \in NameTexts }
    \cup { [ValidForm EXCEPT !.patient_first_name = t] : t \in NameTexts }
    \cup { [ValidForm EXCEPT !.patient_last_name = t] : t \in NameTexts }
    \cup { [ValidForm EXCEPT !.patient_dob = t] : t \in DobTexts }
    \cup { [ValidForm EXCEPT !.clinic_logo = l] : l \in LogoInputs }
    \cup { [ValidForm EXCEPT !.patient_contact = t] : t \in ContactTexts }
    \cup { [ValidForm EXCEPT !.physician_contact = t] : t \in ContactTexts }
    \cup { [ValidForm EXCEPT !.clinic_name = t] : t \in { <<>>, <<" ">> } }
    \cup { [ValidForm EXCEPT !.chief_complaint = t] : t \in { <<>>, <<"c","2">> } }
    \cup { [ValidForm EXCEPT !.consultation_note = t] : t \in { <<>>, <<"n","2">> } }
    \cup { [ValidForm EXCEPT !.csrf_ok = FALSE] }

\* request paths: at most MaxSegs segments joined by "/"
MaxSegs == 3

PathSegments ==
    { <<".", ".">>, XPng, IndexHtml, MyappPy, <<"e","t","c">>, Passwd }

SeqPaths ==
    { Join(segs, <<"/">>) : segs \in Texts(PathSegments, MaxSegs) \ { <<>> } }
    \cup { <<".",".","/",".",".","/","e","t","c","/","p","a","s","s","w","d">> }

\* files left in uploads/ by earlier submissions
OldLogo == Blocks([kind |-> "image", image |-> "imgOld"], ImageSize("imgOld"))

OldReport ==
    [kind |-> "pdf", form |-> ValidForm,
     logo |-> [status |-> 200, kind |-> "file",
               content_length |-> Len(OldLogo), body |-> OldLogo],
     timestamp |-> <<2024, 1, 1>>, ip |-> <<"client", 0>>]

\* the stored report is longer than the one a new submission of the same
\* form renders
StoredFiles ==
    WriteFile(WriteFile(BaseFiles, Append(UploadDir, XPng), OldLogo),
              Resolve(ReportPath(ValidForm)),
              Blocks(OldReport, ReportSize(ValidForm) + 1))

---------------------------------------------------------------------------
(* Specifications *)

Init ==
    /\ today = StartDate
    /\ fs = BaseFiles
    /\ req = [r \in Requests |-> Idle]
    /\ pdf_log = <<>>

Step(r) ==
    \/ save_open(r)
    \/ save_write(r)
    \/ fetch_open(r)
    \/ fetch_read(r)
    \/ pdf_open(r)
    \/ pdf_write(r)
    \/ send_file(r)
    \/ send_read(r)
    \/ file_read(r)

\* concurrent requests, all within one day
Next ==
    \E r \in Requests :
        \/ index_get(r)
        \/ \E data \in ConcForms : index_post(r, data)
        \/ \E path \in ConcPaths : send_report(r, path)
        \/ \E path \in ConcPaths : get_template(r, path)
        \/ Step(r)

Spec == Init /\ [][Next]_vars

\* one request, drawn from the large input sets, on a server that may hold
\* files of earlier submissions
InitSeq ==
    /\ today = StartDate
    /\ fs \in {BaseFiles, StoredFiles}
    /\ req = [r \in Requests |-> Idle]
    /\ pdf_log = <<>>

NextSeq ==
    \/ index_get(1)
    \/ \E data \in SeqForms : index_post(1, data)
    \/ \E path \in SeqPaths : send_report(1, path)
    \/ \E path \in SeqPaths : get_template(1, path)
    \/ Step(1)
    \/ Tick

SpecSeq == InitSeq /\ [][NextSeq]_vars

---------------------------------------------------------------------------
(* Properties *)

InFlight ==
    {"save_open", "save_write", "fetch_open", "fetch_read", "pdf_open",
     "pdf_write", "send_file", "send_read"}

\* request r is a POST / whose validation has just been run by this step
Submits(r) == req[r].pc = "idle" /\ req'[r].route = "POST /"

\* this step answered request r with the re-rendered form
Rerendered(r) == req'[r].pc = "done" /\ req'[r].resp.kind = "form"

\* C1: every logo a successful POST / stores lies inside the upload
\* directory, whatever '/' or '..' its submitted filename holds.
C1_LogoStoredInsideUploads ==
    \A r \in Requests :
        (req[r].route = "POST /" /\ req[r].pc \in InFlight \ {"save_open"})
            => IsInside(Resolve(LogoPath(req[r].form)), UploadDir)

\* C2: a POST / with an error in any field is answered 200 with the form and
\* its errors; generate_pdf is not entered and no file is created or changed.
C2_InvalidPostOnlyRerenders ==
    [][\A r \in Requests :
          (Submits(r) /\ \E f \in FieldNames :
                             FormErrors(req'[r].form, today)[f] # <<>>)
              => /\ Rerendered(r)
                 /\ req'[r].resp.status = 200
                 /\ req'[r].resp.errors = FormErrors(req'[r].form, today)
                 /\ fs' = fs
                 /\ pdf_log' = pdf_log]_vars

C2_Witness ==
    /\ req[1].pc = "done" /\ req[1].route = "POST /"
    /\ req[1].form.physician_name = <<"J","o","h","n","1","2","3">>
    /\ req[1].resp.status = 200 /\ req[1].resp.kind = "form"
    /\ req[1].resp.errors.physician_name = <<PHYSICIAN_MSG>>
    /\ pdf_log = <<>>

\* the text after the last "." of a filename, lower-cased; <<>> without a "."
ExtensionOf(filename) ==
    LET dots == { i \in 1..Len(filename) : filename[i] = "." }
    IN  IF dots = {} THEN <<>>
        ELSE LET last == CHOOSE i \in dots : \A j \in dots : j <= i
             IN  Lower(SubSeq(filename, last + 1, Len(filename)))

HasAllowedLogo(form) ==
    /\ form.clinic_logo.filename # <<>>
    /\ ExtensionOf(form.clinic_logo.filename) \in { <<"j","p","g">>, <<"p","n","g">> }

\* C3: a submission whose logo is missing or whose filename's extension is
\* not jpg or png (compared without case) fails validation, and the step that
\* rejects it writes no file.
C3_LogoExtensionChecked ==
    [][\A r \in Requests :
          (Submits(r) /\ ~HasAllowedLogo(req'[r].form))
              => /\ Rerendered(r)
                 /\ req'[r].resp.errors.clinic_logo # <<>>
                 /\ fs' = fs]_vars

C3_Witness ==
    /\ req[1].pc = "done" /\ req[1].resp.kind = "form"
    /\ req[1].form.clinic_logo.filename = <<"x",".","g","i","f">>
    /\ req[1].resp.errors.clinic_logo = <<IMAGES_ONLY>>
    /\ fs = BaseFiles

IsLetterOrSpace(c) == IsAsciiLetter(c) \/ c = " "

OnlyLettersAndSpaces(s) == \A i \in 1..Len(s) : IsLetterOrSpace(s[i])

\* C4 as claimed: the PDF is stored and sent under exactly
\* CR_<last>_<first>_<dob>.pdf with the names as submitted (stated here for
\* names of ASCII letters and spaces, the names the form is meant to admit).
C4_FilenameIsExactlyTheFields ==
    \A r \in Requests :
        (req[r].pc = "done" /\ req[r].resp.kind = "pdf"
           /\ OnlyLettersAndSpaces(req[r].form.patient_last_name)
           /\ OnlyLettersAndSpaces(req[r].form.patient_first_name))
            => /\ req[r].resp.download_name = ReportName(req[r].form)
               /\ Append(UploadDir, ReportName(req[r].form)) \in DOMAIN fs

\* a name as it appears in the stored filename: characters outside ASCII that
\* have no ASCII compatibility form are dropped, then every run of whitespace
\* becomes one underscore
RECURSIVE Underscored(_, _)
Underscored(s, inRun) ==
    IF s = <<>> THEN <<>>
    ELSE IF Head(s) \in OtherBlanks THEN Underscored(Tail(s), inRun)
    ELSE IF IsSpace(Head(s))
         THEN (IF inRun THEN <<>> ELSE <<"_">>) \o Underscored(Tail(s), TRUE)
    ELSE <<Head(s)>> \o Underscored(Tail(s), FALSE)

ExpectedName(form) ==
    <<"C","R","_">> \o Underscored(form.patient_last_name, FALSE) \o <<"_">>
        \o Underscored(form.patient_first_name, FALSE) \o <<"_">>
        \o DateStr(ParseDate(form.patient_dob)) \o <<".","p","d","f">>

HasNoBlank(s) == \A i \in 1..Len(s) : ~IsSpace(s[i])

\* C4, amended: the PDF is stored in the upload directory and sent under
\* CR_<last>_<first>_<dob>.pdf with every run of whitespace in the two names
\* replaced by one underscore, which is exactly CR_<last>_<first>_<dob>.pdf
\* when the names hold no whitespace.
C4_FilenameIsSanitizedFields ==
    \A r \in Requests :
        (req[r].route = "POST /" /\ req[r].pc \in {"send_file", "send_read", "done"}
           /\ req[r].resp.kind \in {"none", "pdf"})
            => /\ Resolve(req[r].filepath) = Append(UploadDir, ExpectedName(req[r].form))
               /\ Resolve(req[r].filepath) \in DOMAIN fs
               /\ fs[Resolve(req[r].filepath)] = ReportBytes(r, req[r])
               /\ req[r].pc = "done"
                    => req[r].resp.download_name = ExpectedName(req[r].form)
               /\ (HasNoBlank(req[r].form.patient_last_name)
                     /\ HasNoBlank(req[r].form.patient_first_name))
                    => ExpectedName(req[r].form) = ReportName(req[r].form)

C4_Witness ==
    /\ req[1].pc = "done" /\ req[1].resp.kind = "pdf"
    /\ req[1].form.patient_last_name = <<"a", " ", "Z">>
    /\ req[1].form.patient_first_name = Jane
    /\ req[1].resp.download_name =
           <<"C","R","_","a","_","Z","_","J","a","n","e","_",
             "2","0","2","0","-","0","1","-","0","1",".","p","d","f">>
    /\ req[1].resp.body = ReportBytes(1, req[1])
    /\ fs[Append(UploadDir, req[1].resp.download_name)] = req[1].resp.body

\* where a request path leads from a directory when ".." is simply followed
RECURSIVE Follow(_, _)
Follow(cur, segs) ==
    IF segs = <<>> THEN cur
    ELSE IF Head(segs) = <<".", ".">> THEN Follow(Parent(cur), Tail(segs))
    ELSE IF Head(segs) \in { <<>>, <<".">> } THEN Follow(cur, Tail(segs))
    ELSE Follow(Append(cur, Head(segs)), Tail(segs))

ServedDir(r) ==
    IF req[r].route = "GET /uploads/" THEN UploadDir ELSE TemplateDir

\* C5: GET /uploads/<path> and GET /templates/<path> answer 404, or 200 with
\* the file the path names, and that file lies inside the route's directory;
\* the contents of a file outside it are never returned.
C5_ServedFilesStayInside ==
    \A r \in Requests :
        (req[r].pc = "done" /\ req[r].route \in {"GET /uploads/", "GET /templates/"})
            => LET target == Follow(ServedDir(r), SplitOn(req[r].path, "/", <<>>))
               IN  \/ req[r].resp.status = 404
                   \/ /\ req[r].resp.status = 200
                      /\ IsInside(target, ServedDir(r))
                      /\ target \in DOMAIN fs
                      /\ req[r].resp.body = fs[target]
                      /\ req[r].resp.content_length = Len(fs[target])
                      /\ \A p \in DOMAIN fs :
                             ~IsInside(p, ServedDir(r)) => req[r].resp.body # fs[p]

C5_Witness ==
    /\ req[1].pc = "done" /\ req[1].route = "GET /uploads/"
    /\ req[1].path = <<".",".","/",".",".","/","e","t","c","/","p","a","s","s","w","d">>
    /\ Follow(UploadDir, SplitOn(req[1].path, "/", <<>>)) \in DOMAIN fs
    /\ req[1].resp.status = 404

\* the last request in the log that wrote to the file of path p, 0 if none
RECURSIVE LastWriter(_, _)
LastWriter(log, p) ==
    IF log = <<>> THEN 0
    ELSE IF Resolve(req[log[Len(log)]].filepath) = p THEN log[Len(log)]
    ELSE LastWriter(SubSeq(log, 1, Len(log) - 1), p)

\* every request that names the file of path p for its PDF has finished
AllFinished(p) ==
    \A r \in Requests :
        (req[r].route = "POST /" /\ Resolve(req[r].filepath) = p)
            => req[r].pc = "done"

\* C6 as claimed: a request that has written its PDF goes on to answer 200
\* with a PDF whatever the other requests do, and once the requests with the
\* same derived filename have finished, the file stored under that name
\* holds the report of the one that wrote its PDF last.
C6_LaterWriteWins ==
    /\ \A i \in 1..Len(pdf_log) :
           /\ req[pdf_log[i]].pc \in {"send_file", "send_read", "done"}
           /\ req[pdf_log[i]].pc = "done"
                => req[pdf_log[i]].resp.status = 200 /\ req[pdf_log[i]].resp.kind = "pdf"
    /\ \A r \in Requests :
           (req[r].route = "POST /" /\ req[r].resp.kind = "pdf"
              /\ AllFinished(Resolve(req[r].filepath)))
               => LET p == Resolve(req[r].filepath)
                      w == LastWriter(pdf_log, p)
                  IN  /\ w \in Requests
                      /\ fs[p] = ReportBytes(w, req[w])

\* the day number of a date in a calendar of 31-day months
DayNumber(d) == (d[1] * 12 + d[2]) * 31 + d[3]

\* C7: the date-of-birth validator rejects every date after the current date
\* and accepts every date on or before it, the current date included.
C7_DobNotInFuture ==
    [][\A r \in Requests :
          (Submits(r) /\ ParseDate(req'[r].form.patient_dob) # NoDate)
              => LET dob == ParseDate(req'[r].form.patient_dob)
                 IN  IF DayNumber(dob) > DayNumber(today)
                     THEN /\ Rerendered(r)
                          /\ req'[r].resp.errors.patient_dob = <<INVALID_MSG>>
                     ELSE \/ req'[r].pc = "save_open"
                          \/ /\ Rerendered(r)
                             /\ req'[r].resp.errors.patient_dob = <<>>]_vars

C7_Witness ==
    /\ req[1].pc = "save_open"
    /\ ParseDate(req[1].form.patient_dob) = today
    /\ req[1].timestamp = today
    /\ today = NextDay(StartDate)

\* C8 as claimed: a physician name, patient first name or patient last name
\* holding any character other than an ASCII letter or a space is rejected.
C8_OnlyLettersAndSpacesAccepted ==
    \A r \in Requests :
        (req[r].route = "POST /" /\ req[r].pc # "idle")
            => \A f \in {"physician_name", "patient_first_name", "patient_last_name"} :
                   (\E i \in 1..Len(req[r].form[f]) : ~IsLetterOrSpace(req[r].form[f][i]))
                       => /\ req[r].pc = "done"
                          /\ req[r].resp.kind = "form"
                          /\ req[r].resp.errors[f] # <<>>

\* C9 as claimed: the PDF a request is answered with is the report rendered
\* from its own submission, whole and with its length.
C9_ResponseIsOwnReport ==
    \A r \in Requests :
        (req[r].pc = "done" /\ req[r].resp.kind = "pdf")
            => /\ req[r].resp.body = ReportBytes(r, req[r])
               /\ req[r].resp.content_length = Len(req[r].resp.body)

\* the image a block is a piece of, "none" for a block of anything else
ImageOf(block) ==
    IF block.of.kind = "image" THEN block.of.image ELSE "none"

\* C10 as claimed: no piece of an image uploaded by another request is in
\* what a request's report embeds as its logo: the answer to the logo
\* reference holds blocks of the image the request uploaded only.
C10_EmbeddedLogoIsOwnLogo ==
    \A r \in Requests :
        (req[r].route = "POST /" /\ req[r].logo.status = 200)
            => \A i \in 1..Len(req[r].logo.body) :
                   ImageOf(req[r].logo.body[i])
                       \in {req[r].form.clinic_logo.image, "none"}

=============================================================================
